---- MODULE Spec2Model ----
(***************************************************************************)
(* State-machine model of ofxImageSequence (src/src/ofxImageSequence.cpp). *)
(*                                                                         *)
(* One foreground context (the owner: load / unload / addressing calls and *)
(* the update-event handler updateThreadedLoad) and at most one background *)
(* thread running threadedFunction.  The filesystem, the image decoder and *)
(* the texture uploader are collaborators: a file is an integer id, a      *)
(* decoded ofPixels holds the id of the file it was decoded from, and the  *)
(* texture holds the id of the pixels last uploaded to it.                 *)
(*                                                                         *)
(* float values (percent, time) are exact rationals <<num, den>>, den > 0. *)
(***************************************************************************)
EXTENDS Integers, Sequences, FiniteSets, TLC

(***************************************************************************)
(* Bounds and input sets                                                   *)
(***************************************************************************)
MaxDigit == 2           \* startDigit, endDigit range over 0..MaxDigit
MaxListeners == 2       \* cap on registrations of updateThreadedLoad
PercentDen == 2         \* percents are k/PercentDen

IntBits == 8            \* width of int (two's complement)

RECURSIVE Pow2(_)
Pow2(n) == IF n = 0 THEN 1 ELSE 2 * Pow2(n - 1)
IntMax == Pow2(IntBits - 1) - 1
IntMin == 0 - Pow2(IntBits - 1)

Digits == 0..MaxDigit
StartDigits == {0, 1}
FrameArgs == -1..(MaxDigit + 3)              \* arguments of setFrame
Percents == {<<m, PercentDen>> : m \in (0 - PercentDen)..(2 * PercentDen)}
Shifts == {-2, -1, 1, 2}                     \* integer k of p + k
Times == {<<-1, 30>>, <<0, 1>>, <<1, 30>>, <<1, 10>>}
FrameRates == {0, 15, 30}
\* the inputs of the addressing calls in the specification with the thread
CoreFrameArgs == {-1, MaxDigit, MaxDigit + 3}
CorePercents == {<<3, 2>>}
CoreTimes == {<<1, 10>>}
\* digits at the ends of the int range, where endDigit - startDigit overflows
WideStartDigits == {0, 2}
WideEndDigits == {IntMin, IntMin + 1, 1, MaxDigit}
GarbageDims == {0, 7}   \* what a read of memory that holds no ofPixels gives
MaxFramesArgs == {-1, 2}
Extensions == {"", "png"}
Folders == {"missing", "seq"}
LiveFolders == {"missing", "seq", "bad"}

(***************************************************************************)
(* Collaborators: filesystem lister, image decoder                         *)
(***************************************************************************)
\* The folder "seq" holds the files named by the digits 0..MaxDigit of the
\* numeric pattern; the file of digit d has id d + 1.  The folder "bad" holds
\* the files of the digits 1..MaxDigit: its first file is the corrupt one.
Unallocated == 0        \* an ofPixels() that holds no pixel data
Filename(digit) == digit + 1     \* sprintf(imagename, format, i)
Corrupt == {2}          \* files the decoder fails on

\* ofFile(folder).exists()
Exists(folder) == folder \in {"seq", "bad"}

\* dir.allowExt(ext); dir.listDir(folder): sorted paths of the matching files.
\* The files of "seq" are .jpg: the filter "png" matches none of them.
Listing(folder, ext) ==
    IF folder = "seq" /\ ext = ""
    THEN [i \in 1..(MaxDigit + 1) |-> Filename(i - 1)]
    ELSE IF folder = "bad" /\ ext = ""
    THEN [i \in 1..MaxDigit |-> Filename(i)]
    ELSE <<>>

\* ofLoadImage(pix, file): the pixels afterwards (a failed decode leaves pix)
ofLoadImage(pix, file) == IF file \in Corrupt THEN pix ELSE file

isAllocated(pix) == pix # Unallocated

\* ofPixels::getWidth / getHeight (0 when unallocated)
getWidth(pix) == IF pix = Unallocated THEN 0 ELSE 4 + (pix % 2)
getHeight(pix) == IF pix = Unallocated THEN 0 ELSE 3 + (pix % 3)

Min(a, b) == IF a < b THEN a ELSE b
Max(a, b) == IF a > b THEN a ELSE b

\* an out-of-range value reduced to the int range
WrapInt(x) == ((x - IntMin) % Pow2(IntBits)) + IntMin

\* int numFiles = endDigit - startDigit + 1 (line 80).  A signed overflow is
\* undefined: the build wraps the value, or tests the value the arithmetic
\* has without overflow.
NumFiles(startDigit, endDigit) ==
    LET exact == endDigit - startDigit + 1
    IN  IF exact >= IntMin /\ exact <= IntMax
        THEN {exact}
        ELSE {WrapInt(exact), exact}

\* the number of passes of for(i = startDigit; i <= endDigit; i++), line 92
NumPushed(startDigit, endDigit) ==
    IF endDigit >= startDigit THEN endDigit - startDigit + 1 ELSE 0

(***************************************************************************)
(* Rationals                                                               *)
(***************************************************************************)
RLess(p, q) == p[1] * q[2] < q[1] * p[2]
REq(p, q) == p[1] * q[2] = q[1] * p[2]
RFloor(p) == p[1] \div p[2]                  \* floor(), den > 0
RAddInt(p, k) == <<p[1] + k * p[2], p[2]>>
\* (int)x : truncation toward zero
RTrunc(p) == IF p[1] >= 0 THEN p[1] \div p[2] ELSE 0 - ((0 - p[1]) \div p[2])

VARIABLES
    loaded, loading, useThread, cancelLoading,   \* bool members
    frameRate, lastFrameLoaded, currentFrame, maxFrames,
    extension, folderToLoad,
    sequence,        \* vector<ofPixels>: Seq of pixel contents
    filenames,       \* vector<string>: Seq of file ids
    width, height,
    texture,         \* pixels last uploaded by texture.loadData
    listeners,       \* registrations of updateThreadedLoad on ofEvents().update
    thread,          \* [pc, i]: position of the background thread
    pending,         \* foreground call blocked in waitForThread
    alive,           \* FALSE once the destructor has run
    bg,              \* history: Background Loader state of the current load
    earlyCancel,     \* history: cancelLoad() came right after a threaded load
    lastOp,          \* history: the last foreground call
    prevOp           \* history: the foreground call before it

obj == <<loaded, loading, useThread, cancelLoading, frameRate, lastFrameLoaded,
         currentFrame, maxFrames, extension, folderToLoad, sequence, filenames,
         width, height, texture, listeners>>
hist == <<bg, earlyCancel, lastOp, prevOp>>
vars == <<obj, thread, pending, alive, hist>>

(***************************************************************************)
(* Members computed without side effects                                   *)
(***************************************************************************)
getTotalFrames == Len(sequence)
isLoaded == loaded
isLoading == loading

\* a variant that clamps an index past the end to the last frame
WrapIndexClamp(index, total) ==
    IF index >= total THEN total - 1 ELSE index

\* index %= getTotalFrames(): the remainder of C, which has the sign of the
\* dividend (total = 0 would be a division by zero)
WrapIndex(index, total) ==
    IF total = 0 THEN index
    ELSE IF index < 0 THEN 0 - ((0 - index) % total)
    ELSE index % total

\* float getPercentAtFrameIndex(int index): ofMap(index, 0, size-1, 0, 1, true).
\* ofMap returns outputMin when inputMin = inputMax (size 1); with size 0 the
\* unsigned size-1 is about 1.8e19 and the result is (about) 0.
getPercentAtFrameIndex(index) ==
    LET n == Len(sequence)
    IN  IF n <= 1 \/ index <= 0 THEN <<0, 1>>
        ELSE IF index >= n - 1 THEN <<1, 1>>
        ELSE <<index, n - 1>>

\* a variant that wraps only percents above 1 (negative ones are not wrapped)
getFrameIndexAtPercentNoNegativeWrap(percent) ==
    LET n == Len(sequence)
        p == IF RLess(<<1, 1>>, percent)
             THEN RAddInt(percent, 0 - RFloor(percent))
             ELSE percent
        scaled == RTrunc(<<p[1] * n, p[2]>>)
    IN  IF n = 0 THEN scaled ELSE Min(scaled, n - 1)

\* a variant that also wraps the endpoint 1.0 (percent >= 1.0)
getFrameIndexAtPercentWrapOne(percent) ==
    LET n == Len(sequence)
        p == IF RLess(percent, <<0, 1>>) \/ ~RLess(percent, <<1, 1>>)
             THEN RAddInt(percent, 0 - RFloor(percent))
             ELSE percent
        scaled == RTrunc(<<p[1] * n, p[2]>>)
    IN  IF n = 0 THEN scaled ELSE Min(scaled, n - 1)

\* int getFrameIndexAtPercent(float percent)
getFrameIndexAtPercent(percent) ==
    LET n == Len(sequence)
        p == IF RLess(percent, <<0, 1>>) \/ RLess(<<1, 1>>, percent)
             THEN RAddInt(percent, 0 - RFloor(percent))
             ELSE percent
        scaled == RTrunc(<<p[1] * n, p[2]>>)
    IN  \* MIN(int, size_t): with n = 0 the unsigned n-1 is SIZE_MAX
        IF n = 0 THEN scaled ELSE Min(scaled, n - 1)

\* a variant without the lastFrameLoaded test of line 278
loadFrameAlwaysUpload(seq, names, lfl, tex, imageIndex) ==
    IF imageIndex < 0 \/ imageIndex >= Len(seq)
    THEN [sequence |-> seq, lastFrameLoaded |-> lfl, texture |-> tex,
          up |-> 0, err |-> TRUE]
    ELSE LET k == imageIndex + 1
             seq2 == IF ~isAllocated(seq[k])
                     THEN [seq EXCEPT ![k] = ofLoadImage(seq[k], names[k])]
                     ELSE seq
         IN  IF ~isAllocated(seq2[k])
             THEN [sequence |-> seq2, lastFrameLoaded |-> lfl, texture |-> tex,
                   up |-> 0, err |-> TRUE]
             ELSE [sequence |-> seq2, lastFrameLoaded |-> imageIndex,
                   texture |-> seq2[k], up |-> 1, err |-> FALSE]

\* void loadFrame(int imageIndex) on (sequence, filenames, lastFrameLoaded,
\* texture); up counts the calls of texture.loadData, err the error reports.
loadFrame(seq, names, lfl, tex, imageIndex) ==
    IF lfl = imageIndex
    THEN [sequence |-> seq, lastFrameLoaded |-> lfl, texture |-> tex,
          up |-> 0, err |-> FALSE]
    ELSE IF imageIndex < 0 \/ imageIndex >= Len(seq)
    THEN [sequence |-> seq, lastFrameLoaded |-> lfl, texture |-> tex,
          up |-> 0, err |-> TRUE]
    ELSE LET k == imageIndex + 1
             seq2 == IF ~isAllocated(seq[k])
                     THEN [seq EXCEPT ![k] = ofLoadImage(seq[k], names[k])]
                     ELSE seq
         IN  IF ~isAllocated(seq2[k])
             THEN [sequence |-> seq2, lastFrameLoaded |-> lfl, texture |-> tex,
                   up |-> 0, err |-> TRUE]
             ELSE [sequence |-> seq2, lastFrameLoaded |-> imageIndex,
                   texture |-> seq2[k], up |-> 1, err |-> FALSE]

\* void completeLoading() on the given members
completeLoading(ld, seq, names, lfl, tex, w, h) ==
    IF Len(seq) = 0
    THEN [loaded |-> ld, sequence |-> seq, lastFrameLoaded |-> lfl,
          texture |-> tex, width |-> w, height |-> h, up |-> 0, err |-> TRUE]
    ELSE LET r == loadFrame(seq, names, -1, tex, 0)
         IN  [loaded |-> TRUE, sequence |-> r.sequence,
              lastFrameLoaded |-> r.lastFrameLoaded, texture |-> r.texture,
              width |-> getWidth(r.sequence[1]),
              height |-> getHeight(r.sequence[1]),
              up |-> r.up, err |-> r.err]

\* a variant without the numFiles == 0 test of line 165
preloadAllFilenamesNoEmptyTest(folder, ext, maxF) ==
    IF ~Exists(folder) THEN [ok |-> FALSE, names |-> <<>>]
    ELSE LET listed == Listing(folder, ext)
             numFiles == IF maxF > 0 THEN Min(Len(listed), maxF) ELSE Len(listed)
         IN  [ok |-> TRUE, names |-> SubSeq(listed, 1, numFiles)]

\* bool preloadAllFilenames(): the result and the paths it appends
preloadAllFilenames(folder, ext, maxF) ==
    IF ~Exists(folder) THEN [ok |-> FALSE, names |-> <<>>]
    ELSE LET listed == Listing(folder, ext)
             numFiles == IF maxF > 0 THEN Min(Len(listed), maxF) ELSE Len(listed)
         IN  IF numFiles = 0 THEN [ok |-> FALSE, names |-> <<>>]
             ELSE [ok |-> TRUE, names |-> SubSeq(listed, 1, numFiles)]

\* lines 270-272 of preloadAllFrames(): ofLoadImage(sequence[i], filenames[i])
\* and the error it logs when the decode fails
preloadAllFramesStep(seq, names, i) ==
    [sequence |-> [seq EXCEPT ![i + 1] = ofLoadImage(@, names[i + 1])],
     err |-> names[i + 1] \in Corrupt]

\* n default-constructed ofPixels
EmptyPixels(n) == [i \in 1..n |-> Unallocated]

\* a variant without the negative-index test of line 394
setFrameResultNoNegativeTest(index) ==
    IF ~loaded
    THEN [sequence |-> sequence, lastFrameLoaded |-> lastFrameLoaded,
          texture |-> texture, currentFrame |-> currentFrame,
          up |-> 0, err |-> TRUE, acc |-> FALSE]
    ELSE LET idx == WrapIndex(index, getTotalFrames)
             r == loadFrame(sequence, filenames, lastFrameLoaded, texture, idx)
         IN  [sequence |-> r.sequence, lastFrameLoaded |-> r.lastFrameLoaded,
              texture |-> r.texture, currentFrame |-> idx,
              up |-> r.up, err |-> r.err, acc |-> TRUE]

\* void setFrame(int index): the members afterwards; acc = passed both guards
setFrameResult(index) ==
    IF ~loaded \/ index < 0
    THEN [sequence |-> sequence, lastFrameLoaded |-> lastFrameLoaded,
          texture |-> texture, currentFrame |-> currentFrame,
          up |-> 0, err |-> TRUE, acc |-> FALSE]
    ELSE LET idx == WrapIndex(index, getTotalFrames)
             r == loadFrame(sequence, filenames, lastFrameLoaded, texture, idx)
         IN  [sequence |-> r.sequence, lastFrameLoaded |-> r.lastFrameLoaded,
              texture |-> r.texture, currentFrame |-> idx,
              up |-> r.up, err |-> r.err, acc |-> TRUE]

(***************************************************************************)
(* History of foreground calls                                             *)
(***************************************************************************)
Op(op, arg, ret, up, err, acc) ==
    [op |-> op, arg |-> arg, ret |-> ret, up |-> up, err |-> err, acc |-> acc]

\* what is kept of the call before the last one: an accepted setFrame
Prev ==
    IF lastOp.op = "setFrame" /\ lastOp.acc
    THEN [op |-> "setFrame", arg |-> lastOp.arg, up |-> lastOp.up]
    ELSE [op |-> "other", arg |-> 0, up |-> 0]

Note(o) ==
    /\ lastOp' = o
    /\ prevOp' = Prev
    /\ earlyCancel' =
         IF o.op = "cancelLoad"
         THEN /\ lastOp.op = "loadSequenceFolder"
              /\ useThread
              /\ Exists(folderToLoad)
              /\ Len(Listing(folderToLoad, extension)) > 0
         ELSE IF o.op = "updateThreadedLoad" THEN earlyCancel ELSE FALSE

NoPending == "none"
Crashed == "crashed"                 \* the process was ended by a fault
ThreadIdle == [pc |-> "idle", i |-> 0]
ThreadRunning == thread.pc # "idle"          \* ofThread: !threadDone
Fg == alive /\ pending = NoPending            \* the owner is free to call

\* the owner blocks in waitForThread(true) until the thread is done
Block(op) ==
    /\ pending' = op
    /\ Note(Op(op, 0, "blocked", 0, FALSE, FALSE))
    /\ UNCHANGED <<obj, thread, alive, bg>>

Init ==
    /\ loaded = FALSE /\ loading = FALSE
    /\ useThread = FALSE /\ cancelLoading = FALSE
    /\ frameRate = 30
    /\ lastFrameLoaded = -1
    /\ currentFrame = 0
    /\ maxFrames = 0
    /\ extension = "" /\ folderToLoad = ""
    /\ sequence = <<>> /\ filenames = <<>>
    /\ width \in {0, 7} /\ height = width      \* not set by the constructor
    /\ texture = Unallocated
    /\ listeners = 0
    /\ thread = ThreadIdle
    /\ pending = NoPending
    /\ alive = TRUE
    /\ bg = "Idle"
    /\ earlyCancel = FALSE
    /\ lastOp = Op("ofxImageSequence", 0, "void", 0, FALSE, TRUE)
    /\ prevOp = [op |-> "other", arg |-> 0, up |-> 0]

(***************************************************************************)
(* Loading and unloading (foreground)                                      *)
(***************************************************************************)
\* unloadSequence() once waitForThread(true) has returned
unloadSequenceBody ==
    /\ sequence' = <<>> /\ filenames' = <<>>
    /\ loaded' = FALSE /\ width' = 0 /\ height' = 0
    /\ bg' = "Idle"
    /\ pending' = NoPending
    /\ Note(Op("unloadSequence", 0, "void", 0, FALSE, TRUE))
    /\ UNCHANGED <<loading, useThread, cancelLoading, frameRate,
                   lastFrameLoaded, currentFrame, maxFrames, extension,
                   folderToLoad, texture, listeners, thread, alive>>

unloadSequence ==
    /\ Fg
    /\ IF ThreadRunning THEN Block("unloadSequence") ELSE unloadSequenceBody

\* loadSequence(prefix, filetype, startDigit, endDigit, numDigits) after the
\* wait inside its unloadSequence()
loadSequenceBody(startDigit, endDigit) ==
    LET pushed == NumPushed(startDigit, endDigit)
        names == [i \in 1..pushed |-> Filename(startDigit + i - 1)]
        r == loadFrame(EmptyPixels(pushed), names, -1, texture, 0)
    IN  /\ bg' = "Idle"
        /\ \E numFiles \in NumFiles(startDigit, endDigit) :
             IF numFiles <= 0
             THEN /\ sequence' = <<>> /\ filenames' = <<>>
                  /\ loaded' = FALSE /\ width' = 0 /\ height' = 0
                  /\ pending' = NoPending
                  /\ UNCHANGED <<lastFrameLoaded, texture>>
                  /\ Note(Op("loadSequence", <<startDigit, endDigit>>,
                             "false", 0, TRUE, FALSE))
             ELSE /\ filenames' = names
                  /\ sequence' = r.sequence
                  /\ loaded' = TRUE
                  /\ lastFrameLoaded' = r.lastFrameLoaded
                  /\ texture' = r.texture
                  /\ IF pushed > 0
                     THEN /\ width' = getWidth(r.sequence[1])
                          /\ height' = getHeight(r.sequence[1])
                          /\ pending' = NoPending
                          /\ Note(Op("loadSequence", <<startDigit, endDigit>>,
                                     "true", r.up, r.err, TRUE))
                     ELSE \* sequence[0] of an empty vector (lines 103-104):
                          \* the read faults, or gives what the memory holds
                          \E g \in GarbageDims :
                             /\ width' = g /\ height' = g
                             /\ \/ /\ pending' = Crashed
                                   /\ Note(Op("loadSequence",
                                              <<startDigit, endDigit>>,
                                              "crashed", r.up, r.err, TRUE))
                                \/ /\ pending' = NoPending
                                   /\ Note(Op("loadSequence",
                                              <<startDigit, endDigit>>,
                                              "true", r.up, r.err, TRUE))
        /\ UNCHANGED <<loading, useThread, cancelLoading, frameRate,
                       currentFrame, maxFrames, extension, folderToLoad,
                       listeners, thread, alive>>

loadSequence(startDigit, endDigit) ==
    /\ Fg
    /\ IF ThreadRunning
       THEN Block("unloadSequence")
       ELSE loadSequenceBody(startDigit, endDigit)

\* loadSequence(folder) after the wait inside its unloadSequence()
loadSequenceFolderBody(folder) ==
    LET f == preloadAllFilenames(folder, extension, maxFrames)
        c == completeLoading(FALSE, EmptyPixels(Len(f.names)), f.names,
                             lastFrameLoaded, texture, 0, 0)
    IN  /\ useThread => listeners < MaxListeners
        /\ pending' = NoPending
        /\ folderToLoad' = folder
        /\ IF useThread
           THEN \* startThread(true); return true
                /\ thread' = [pc |-> "start", i |-> 0]
                /\ bg' = "Running"
                /\ sequence' = <<>> /\ filenames' = <<>>
                /\ loaded' = FALSE /\ width' = 0 /\ height' = 0
                /\ UNCHANGED <<lastFrameLoaded, texture>>
                /\ Note(Op("loadSequenceFolder", folder, "true", 0, FALSE, TRUE))
           ELSE IF f.ok
           THEN /\ filenames' = f.names
                /\ sequence' = c.sequence
                /\ loaded' = c.loaded
                /\ lastFrameLoaded' = c.lastFrameLoaded
                /\ texture' = c.texture
                /\ width' = c.width /\ height' = c.height
                /\ bg' = "Idle"
                /\ UNCHANGED thread
                /\ Note(Op("loadSequenceFolder", folder, "true", c.up, c.err, TRUE))
           ELSE /\ sequence' = <<>> /\ filenames' = <<>>
                /\ loaded' = FALSE /\ width' = 0 /\ height' = 0
                /\ bg' = "Idle"
                /\ UNCHANGED <<lastFrameLoaded, texture, thread>>
                /\ Note(Op("loadSequenceFolder", folder, "false", 0, TRUE, FALSE))
        /\ UNCHANGED <<loading, useThread, cancelLoading, frameRate,
                       currentFrame, maxFrames, extension, listeners, alive>>

loadSequenceFolder(folder) ==
    /\ Fg
    /\ IF ThreadRunning
       THEN Block("unloadSequence")
       ELSE loadSequenceFolderBody(folder)

\* ~ofxImageSequence(): cancelLoad(), then waitForThread(true)
Destructor ==
    /\ Fg
    /\ IF ThreadRunning
       THEN /\ pending' = "destructor"
            /\ cancelLoading' = IF useThread /\ loading THEN TRUE ELSE cancelLoading
            /\ Note(Op("destructor", 0, "blocked", 0, FALSE, FALSE))
            /\ UNCHANGED <<loaded, loading, useThread, frameRate,
                           lastFrameLoaded, currentFrame, maxFrames, extension,
                           folderToLoad, sequence, filenames, width, height,
                           texture, listeners, thread, alive, bg>>
       ELSE /\ sequence' = <<>> /\ filenames' = <<>>
            /\ loaded' = FALSE /\ width' = 0 /\ height' = 0
            /\ cancelLoading' = IF useThread /\ loading THEN TRUE ELSE cancelLoading
            /\ bg' = "Idle"
            /\ alive' = FALSE
            /\ Note(Op("destructor", 0, "void", 0, FALSE, TRUE))
            /\ UNCHANGED <<loading, useThread, frameRate, lastFrameLoaded,
                           currentFrame, maxFrames, extension, folderToLoad,
                           texture, listeners, thread, pending>>

\* The blocked calls continue once the thread is done.  A load blocks inside
\* its unloadSequence(): which call the owner entered through, and with what
\* arguments, is first read when that unloadSequence() returns.
ResumeUnloadSequence ==
    /\ alive /\ pending = "unloadSequence" /\ ~ThreadRunning
    /\ unloadSequenceBody

ResumeLoadSequence(startDigit, endDigit) ==
    /\ alive /\ pending = "unloadSequence" /\ ~ThreadRunning
    /\ loadSequenceBody(startDigit, endDigit)

ResumeLoadSequenceFolder(folder) ==
    /\ alive /\ pending = "unloadSequence" /\ ~ThreadRunning
    /\ loadSequenceFolderBody(folder)

ResumeDestructor ==
    /\ alive /\ pending = "destructor" /\ ~ThreadRunning
    /\ sequence' = <<>> /\ filenames' = <<>>
    /\ loaded' = FALSE /\ width' = 0 /\ height' = 0
    /\ bg' = "Idle"
    /\ alive' = FALSE
    /\ pending' = NoPending
    /\ Note(Op("destructor", 0, "void", 0, FALSE, TRUE))
    /\ UNCHANGED <<loading, useThread, cancelLoading, frameRate,
                   lastFrameLoaded, currentFrame, maxFrames, extension,
                   folderToLoad, texture, listeners, thread>>

(***************************************************************************)
(* Completion handoff: the update-event listener (foreground)              *)
(***************************************************************************)
\* updateThreadedLoad() from ofRemoveListener on (lines 211-215)
updateThreadedLoadBody ==
    LET c == completeLoading(loaded, sequence, filenames, lastFrameLoaded,
                             texture, width, height)
    IN  /\ listeners' = listeners - 1
        /\ pending' = NoPending
        /\ IF Len(sequence) > 0
           THEN /\ loaded' = c.loaded
                /\ sequence' = c.sequence
                /\ lastFrameLoaded' = c.lastFrameLoaded
                /\ texture' = c.texture
                /\ width' = c.width /\ height' = c.height
                /\ Note(Op("updateThreadedLoad", 0, "void", c.up, c.err, TRUE))
           ELSE /\ UNCHANGED <<loaded, sequence, lastFrameLoaded, texture,
                               width, height>>
                /\ Note(Op("updateThreadedLoad", 0, "void", 0, FALSE, TRUE))
        /\ UNCHANGED <<loading, useThread, cancelLoading, frameRate,
                       currentFrame, maxFrames, extension, folderToLoad,
                       filenames, thread, alive, bg>>

\* one delivery of the update event to one registration of the listener.
\* The handler reads `loading` first; when the thread is still running the
\* rest of the handler is a separate step that races with the thread.
updateThreadedLoad ==
    /\ Fg
    /\ listeners > 0
    /\ IF loading
       THEN /\ Note(Op("updateThreadedLoad", 0, "void", 0, FALSE, FALSE))
            /\ UNCHANGED <<obj, thread, pending, alive, bg>>
       ELSE IF ThreadRunning
       THEN Block("updateThreadedLoad")
       ELSE updateThreadedLoadBody

ResumeUpdateThreadedLoad ==
    /\ alive /\ pending = "updateThreadedLoad"
    /\ updateThreadedLoadBody

(***************************************************************************)
(* Configuration (foreground)                                              *)
(***************************************************************************)
setMaxFrames(newMaxFrames) ==
    /\ Fg
    /\ maxFrames' = Max(newMaxFrames, 0)
    /\ Note(Op("setMaxFrames", newMaxFrames, "void", 0, loaded, TRUE))
    /\ UNCHANGED <<loaded, loading, useThread, cancelLoading, frameRate,
                   lastFrameLoaded, currentFrame, extension, folderToLoad,
                   sequence, filenames, width, height, texture, listeners,
                   thread, pending, alive, bg>>

setExtension(ext) ==
    /\ Fg
    /\ extension' = ext
    /\ Note(Op("setExtension", ext, "void", 0, FALSE, TRUE))
    /\ UNCHANGED <<loaded, loading, useThread, cancelLoading, frameRate,
                   lastFrameLoaded, currentFrame, maxFrames, folderToLoad,
                   sequence, filenames, width, height, texture, listeners,
                   thread, pending, alive, bg>>

enableThreadedLoad(enable) ==
    /\ Fg
    /\ useThread' = enable
    /\ Note(Op("enableThreadedLoad", enable, "void", 0, loaded, TRUE))
    /\ UNCHANGED <<loaded, loading, cancelLoading, frameRate,
                   lastFrameLoaded, currentFrame, maxFrames, extension,
                   folderToLoad, sequence, filenames, width, height, texture,
                   listeners, thread, pending, alive, bg>>

setFrameRate(rate) ==
    /\ Fg
    /\ frameRate' = rate
    /\ Note(Op("setFrameRate", rate, "void", 0, FALSE, TRUE))
    /\ UNCHANGED <<loaded, loading, useThread, cancelLoading,
                   lastFrameLoaded, currentFrame, maxFrames, extension,
                   folderToLoad, sequence, filenames, width, height, texture,
                   listeners, thread, pending, alive, bg>>

cancelLoad ==
    /\ Fg
    /\ cancelLoading' = IF useThread /\ loading THEN TRUE ELSE cancelLoading
    /\ Note(Op("cancelLoad", 0, "void", 0, FALSE, useThread /\ loading))
    /\ UNCHANGED <<loaded, loading, useThread, frameRate, lastFrameLoaded,
                   currentFrame, maxFrames, extension, folderToLoad, sequence,
                   filenames, width, height, texture, listeners, thread,
                   pending, alive, bg>>

(***************************************************************************)
(* Playback cursor (foreground)                                            *)
(***************************************************************************)
\* lines 401-402 of setFrame with the index as line 399 left it
setFrameAt(idx) ==
    LET r == loadFrame(sequence, filenames, lastFrameLoaded, texture, idx)
    IN  [sequence |-> r.sequence, lastFrameLoaded |-> r.lastFrameLoaded,
         texture |-> r.texture, currentFrame |-> idx,
         up |-> r.up, err |-> r.err, acc |-> TRUE]

\* the assignments of setFrame(index), reached from the call named op.
\* On a loaded sequence without frames line 399 divides by zero: the
\* process faults, or the index is any int.
ApplySetFrame(op, arg, index) ==
    /\ IF loaded /\ index >= 0 /\ getTotalFrames = 0
       THEN \/ /\ pending' = Crashed
               /\ Note(Op(op, arg, "crashed", 0, FALSE, TRUE))
               /\ UNCHANGED <<sequence, lastFrameLoaded, texture,
                              currentFrame>>
            \/ \E idx \in FrameArgs :
                  LET r == setFrameAt(idx)
                  IN  /\ sequence' = r.sequence
                      /\ lastFrameLoaded' = r.lastFrameLoaded
                      /\ texture' = r.texture
                      /\ currentFrame' = r.currentFrame
                      /\ Note(Op(op, arg, "void", r.up, r.err, r.acc))
                      /\ UNCHANGED pending
       ELSE LET r == setFrameResult(index)
            IN  /\ sequence' = r.sequence
                /\ lastFrameLoaded' = r.lastFrameLoaded
                /\ texture' = r.texture
                /\ currentFrame' = r.currentFrame
                /\ Note(Op(op, arg, "void", r.up, r.err, r.acc))
                /\ UNCHANGED pending
    /\ UNCHANGED <<loaded, loading, useThread, cancelLoading, frameRate,
                   maxFrames, extension, folderToLoad, filenames, width,
                   height, listeners, thread, alive, bg>>

setFrame(index) ==
    /\ Fg
    /\ ApplySetFrame("setFrame", index, index)

setFrameAtPercent(percent) ==
    /\ Fg
    /\ ApplySetFrame("setFrameAtPercent", percent,
                     getFrameIndexAtPercent(percent))

\* the indices setFrameForTime(time) can pass to setFrame.
\*   totalTime = sequence.size() / frameRate;  percent = time / totalTime
\* size 0 divides by zero: percent is inf or NaN, percent - floor(percent)
\* is NaN and (int)NaN is undefined: any int.  frameRate 0 with size > 0
\* gives totalTime = inf and percent = 0.
TimeIndexes(time) ==
    LET n == Len(sequence)
    IN  IF n = 0 THEN FrameArgs
        ELSE IF frameRate = 0 THEN {getFrameIndexAtPercent(<<0, 1>>)}
        ELSE {getFrameIndexAtPercent(<<time[1] * frameRate, time[2] * n>>)}

setFrameForTime(time) ==
    /\ Fg
    /\ \E index \in TimeIndexes(time) :
          ApplySetFrame("setFrameForTime", time, index)

(***************************************************************************)
(* The background thread: threadedFunction()                               *)
(***************************************************************************)
\* line 185
ThreadSetLoading ==
    /\ thread.pc = "start"
    /\ loading' = TRUE
    /\ thread' = [thread EXCEPT !.pc = "init"]
    /\ UNCHANGED <<loaded, useThread, cancelLoading, frameRate,
                   lastFrameLoaded, currentFrame, maxFrames, extension,
                   folderToLoad, sequence, filenames, width, height, texture,
                   listeners, pending, alive, hist>>

\* lines 186-188
ThreadAddListener ==
    /\ thread.pc = "init"
    /\ cancelLoading' = FALSE
    /\ listeners' = listeners + 1
    /\ thread' = [thread EXCEPT !.pc = "names"]
    /\ UNCHANGED <<loaded, loading, useThread, frameRate, lastFrameLoaded,
                   currentFrame, maxFrames, extension, folderToLoad, sequence,
                   filenames, width, height, texture, pending, alive, hist>>

\* line 190, preloadAllFilenames() returned true
ThreadResolve ==
    LET f == preloadAllFilenames(folderToLoad, extension, maxFrames)
    IN  /\ thread.pc = "names"
        /\ f.ok
        /\ filenames' = filenames \o f.names
        /\ sequence' = sequence \o EmptyPixels(Len(f.names))
        /\ thread' = [thread EXCEPT !.pc = "cancelcheck"]
        /\ UNCHANGED <<loaded, loading, useThread, cancelLoading, frameRate,
                       lastFrameLoaded, currentFrame, maxFrames, extension,
                       folderToLoad, width, height, texture, listeners,
                       pending, alive, hist>>

\* a variant of the failure path that leaves `loading` set
ThreadResolveFailKeepLoading ==
    LET f == preloadAllFilenames(folderToLoad, extension, maxFrames)
    IN  /\ thread.pc = "names"
        /\ ~f.ok
        /\ thread' = ThreadIdle
        /\ bg' = "Failed"
        /\ UNCHANGED <<loaded, loading, useThread, cancelLoading, frameRate,
                       lastFrameLoaded, currentFrame, maxFrames, extension,
                       folderToLoad, sequence, filenames, width, height,
                       texture, listeners, pending, alive, earlyCancel,
                       lastOp, prevOp>>

\* lines 190-193, preloadAllFilenames() returned false
ThreadResolveFail ==
    LET f == preloadAllFilenames(folderToLoad, extension, maxFrames)
    IN  /\ thread.pc = "names"
        /\ ~f.ok
        /\ loading' = FALSE
        /\ thread' = ThreadIdle
        /\ bg' = "Failed"
        /\ UNCHANGED <<loaded, useThread, cancelLoading, frameRate,
                       lastFrameLoaded, currentFrame, maxFrames, extension,
                       folderToLoad, sequence, filenames, width, height,
                       texture, listeners, pending, alive, earlyCancel,
                       lastOp, prevOp>>

\* lines 195-201, up to the first test of the loop in preloadAllFrames()
ThreadCheckCancel ==
    /\ thread.pc = "cancelcheck"
    /\ IF cancelLoading
       THEN /\ loading' = FALSE
            /\ cancelLoading' = FALSE
            /\ thread' = ThreadIdle
            /\ bg' = "Cancelled"
       ELSE /\ thread' = [pc |-> "frames", i |-> 0]
            /\ UNCHANGED <<loading, cancelLoading, bg>>
    /\ UNCHANGED <<loaded, useThread, frameRate, lastFrameLoaded,
                   currentFrame, maxFrames, extension, folderToLoad, sequence,
                   filenames, width, height, texture, listeners, pending,
                   alive, earlyCancel, lastOp, prevOp>>

\* a variant of the loop that returns at the first file that fails to decode
ThreadPreloadFrameStopOnError ==
    /\ thread.pc = "frames"
    /\ thread.i < Len(sequence)
    /\ IF useThread /\ cancelLoading
       THEN /\ loading' = FALSE
            /\ thread' = ThreadIdle
            /\ bg' = "Cancelled"
            /\ UNCHANGED sequence
       ELSE IF preloadAllFramesStep(sequence, filenames, thread.i).err
       THEN /\ loading' = FALSE
            /\ thread' = ThreadIdle
            /\ bg' = "Completed"
            /\ UNCHANGED sequence
       ELSE /\ sequence' =
                   preloadAllFramesStep(sequence, filenames, thread.i).sequence
            /\ thread' = [thread EXCEPT !.i = @ + 1]
            /\ UNCHANGED <<loading, bg>>
    /\ UNCHANGED <<loaded, useThread, cancelLoading, frameRate,
                   lastFrameLoaded, currentFrame, maxFrames, extension,
                   folderToLoad, filenames, width, height, texture, listeners,
                   pending, alive, earlyCancel, lastOp, prevOp>>

\* one iteration of the loop of preloadAllFrames() (lines 261-273); a
\* cancelled loop returns to line 203
ThreadPreloadFrame ==
    /\ thread.pc = "frames"
    /\ thread.i < Len(sequence)
    /\ IF useThread /\ cancelLoading
       THEN /\ loading' = FALSE
            /\ thread' = ThreadIdle
            /\ bg' = "Cancelled"
            /\ UNCHANGED sequence
       ELSE /\ sequence' =
                   preloadAllFramesStep(sequence, filenames, thread.i).sequence
            /\ thread' = [thread EXCEPT !.i = @ + 1]
            /\ UNCHANGED <<loading, bg>>
    /\ UNCHANGED <<loaded, useThread, cancelLoading, frameRate,
                   lastFrameLoaded, currentFrame, maxFrames, extension,
                   folderToLoad, filenames, width, height, texture, listeners,
                   pending, alive, earlyCancel, lastOp, prevOp>>

\* a variant of the end of threadedFunction that leaves `loading` set
ThreadFinishKeepLoading ==
    /\ thread.pc = "frames"
    /\ thread.i >= Len(sequence)
    /\ thread' = ThreadIdle
    /\ bg' = "Completed"
    /\ UNCHANGED <<loaded, loading, useThread, cancelLoading, frameRate,
                   lastFrameLoaded, currentFrame, maxFrames, extension,
                   folderToLoad, sequence, filenames, width, height, texture,
                   listeners, pending, alive, earlyCancel, lastOp, prevOp>>

\* the loop ends, line 203
ThreadFinish ==
    /\ thread.pc = "frames"
    /\ thread.i >= Len(sequence)
    /\ loading' = FALSE
    /\ thread' = ThreadIdle
    /\ bg' = "Completed"
    /\ UNCHANGED <<loaded, useThread, cancelLoading, frameRate,
                   lastFrameLoaded, currentFrame, maxFrames, extension,
                   folderToLoad, sequence, filenames, width, height, texture,
                   listeners, pending, alive, earlyCancel, lastOp, prevOp>>

Next ==
    \/ \E s \in StartDigits, e \in Digits : loadSequence(s, e)
    \/ \E folder \in Folders : loadSequenceFolder(folder)
    \/ unloadSequence
    \/ Destructor
    \/ ResumeUnloadSequence
    \/ \E s \in StartDigits, e \in Digits : ResumeLoadSequence(s, e)
    \/ \E folder \in Folders : ResumeLoadSequenceFolder(folder)
    \/ ResumeDestructor
    \/ updateThreadedLoad
    \/ ResumeUpdateThreadedLoad
    \/ \E n \in MaxFramesArgs : setMaxFrames(n)
    \/ \E ext \in Extensions : setExtension(ext)
    \/ \E enable \in BOOLEAN : enableThreadedLoad(enable)
    \/ cancelLoad
    \/ \E index \in CoreFrameArgs : setFrame(index)
    \/ \E percent \in CorePercents : setFrameAtPercent(percent)
    \/ \E time \in CoreTimes : setFrameForTime(time)
    \/ ThreadSetLoading
    \/ ThreadAddListener
    \/ ThreadResolve
    \/ ThreadResolveFail
    \/ ThreadCheckCancel
    \/ ThreadPreloadFrame
    \/ ThreadFinish

Spec == Init /\ [][Next]_vars

\* The playback cursor on synchronously loaded sequences, over the full
\* input sets of the addressing calls.
NextPlayback ==
    \/ \E s \in StartDigits, e \in Digits : loadSequence(s, e)
    \/ \E folder \in Folders : loadSequenceFolder(folder)
    \/ unloadSequence
    \/ \E n \in MaxFramesArgs : setMaxFrames(n)
    \/ \E rate \in FrameRates : setFrameRate(rate)
    \/ \E index \in FrameArgs : setFrame(index)
    \/ \E percent \in Percents : setFrameAtPercent(percent)
    \/ \E time \in Times : setFrameForTime(time)

SpecPlayback == Init /\ [][NextPlayback]_vars

\* One background load that the owner lets run: no cancelLoad, unload,
\* destructor or further load once it has started.  The thread is scheduled
\* fairly and the update event keeps being delivered.
ThreadStep ==
    \/ ThreadSetLoading
    \/ ThreadAddListener
    \/ ThreadResolve
    \/ ThreadResolveFail
    \/ ThreadCheckCancel
    \/ ThreadPreloadFrame
    \/ ThreadFinish

NextLive ==
    \/ \E enable \in BOOLEAN : enableThreadedLoad(enable)
    \/ \E n \in MaxFramesArgs : setMaxFrames(n)
    \/ \E folder \in LiveFolders : bg = "Idle" /\ loadSequenceFolder(folder)
    \/ updateThreadedLoad
    \/ \E index \in CoreFrameArgs : setFrame(index)
    \/ ThreadStep

SpecLive ==
    /\ Init /\ [][NextLive]_vars
    /\ WF_vars(ThreadStep)
    /\ WF_vars(updateThreadedLoad)

\* The numeric load over digits at the ends of the int range.
NextDigits ==
    \/ \E s \in WideStartDigits, e \in WideEndDigits : loadSequence(s, e)
    \/ unloadSequence
    \/ \E index \in FrameArgs : setFrame(index)
    \/ \E percent \in Percents : setFrameAtPercent(percent)

SpecDigits == Init /\ [][NextDigits]_vars

(***************************************************************************)
(* Properties                                                              *)
(***************************************************************************)
NoPixels == \A i \in 1..Len(sequence) : ~isAllocated(sequence[i])

\* C1: with threaded loading enabled, loadSequence(folder) on a folder that
\* resolves to at least one file followed at once by cancelLoad() ends, once
\* the thread has stopped and the owner's ticks have been delivered, with
\* isLoading() and isLoaded() false and no entry holding decoded pixels.
C1_CancelRightAfterStart ==
    (earlyCancel /\ ~ThreadRunning /\ pending = NoPending /\ listeners = 0)
        => (~isLoading /\ ~isLoaded /\ NoPixels)

\* C2: whenever the sequence is loaded and non-empty, the cursor is a valid
\* index: 0 <= currentFrame < getTotalFrames().
C2_CursorInRange ==
    (isLoaded /\ getTotalFrames > 0)
        => (0 <= currentFrame /\ currentFrame < getTotalFrames)

\* C3: on a loaded sequence, setFrame(index) with index >= total is accepted
\* and leaves exactly the state that setFrame(index % total) leaves.
C3_SetFrameWraps ==
    (isLoaded /\ getTotalFrames > 0) =>
        \A index \in FrameArgs :
            index >= getTotalFrames =>
                /\ setFrameResult(index) =
                       setFrameResult(index % getTotalFrames)
                /\ setFrameResult(index).acc
                /\ setFrameResult(index).currentFrame = index % getTotalFrames

C3_Witness ==
    /\ isLoaded
    /\ lastOp.op = "setFrame" /\ lastOp.acc
    /\ lastOp.arg >= getTotalFrames
    /\ currentFrame = lastOp.arg % getTotalFrames
    /\ currentFrame > 0
    /\ lastFrameLoaded = currentFrame

\* the addressing call r was rejected: an error and no change of state
Rejected(r) ==
    /\ r.err /\ ~r.acc /\ r.up = 0
    /\ r.currentFrame = currentFrame
    /\ r.lastFrameLoaded = lastFrameLoaded
    /\ r.sequence = sequence
    /\ r.texture = texture

AddressingOps == {"setFrame", "setFrameForTime", "setFrameAtPercent"}

\* C4: a rejected addressing call (setFrame with a negative index on a loaded
\* sequence; setFrame, setFrameForTime or setFrameAtPercent with any argument
\* on an unloaded one) reports an error and changes neither currentFrame,
\* lastFrameLoaded, the entries nor the texture.
C4_RejectedIsNoOp ==
    /\ [](\A index \in FrameArgs :
             (~isLoaded \/ index < 0) => Rejected(setFrameResult(index)))
    /\ [](~isLoaded =>
             \A percent \in Percents :
                 Rejected(setFrameResult(getFrameIndexAtPercent(percent))))
    /\ [](~isLoaded =>
             \A time \in Times : \A index \in TimeIndexes(time) :
                 Rejected(setFrameResult(index)))
    /\ [][(/\ lastOp'.op \in AddressingOps
           /\ thread' = thread
           /\ \/ ~isLoaded
              \/ (lastOp'.op = "setFrame" /\ lastOp'.arg < 0))
          => (/\ lastOp'.err /\ ~lastOp'.acc /\ lastOp'.up = 0
              /\ UNCHANGED <<currentFrame, lastFrameLoaded, sequence,
                             texture>>)]_vars

C4_Witness ==
    /\ isLoaded /\ currentFrame > 0 /\ lastFrameLoaded = currentFrame
    /\ lastOp.op = "setFrame" /\ lastOp.arg < 0
    /\ lastOp.err /\ ~lastOp.acc

One == <<1, 1>>

\* C5 (original statement): for a sequence of n >= 1 frames, every percent p
\* and every integer k, getFrameIndexAtPercent(p) = getFrameIndexAtPercent(p + k).
C5_PeriodicEverywhere ==
    getTotalFrames >= 1 =>
        \A p \in Percents : \A k \in Shifts :
            getFrameIndexAtPercent(p) = getFrameIndexAtPercent(RAddInt(p, k))

\* C5: for a sequence of n >= 1 frames, every percent p and every integer k
\* such that neither p nor p + k is exactly 1,
\* getFrameIndexAtPercent(p) = getFrameIndexAtPercent(p + k).
C5_PeriodicExceptAtOne ==
    getTotalFrames >= 1 =>
        \A p \in Percents : \A k \in Shifts :
            (~REq(p, One) /\ ~REq(RAddInt(p, k), One)) =>
                getFrameIndexAtPercent(p) =
                    getFrameIndexAtPercent(RAddInt(p, k))

C5_Witness ==
    /\ isLoaded /\ getTotalFrames >= 3
    /\ lastOp.op = "setFrameAtPercent" /\ lastOp.acc
    /\ RLess(lastOp.arg, <<0, 1>>)
    /\ currentFrame = getFrameIndexAtPercent(RAddInt(lastOp.arg, 1))
    /\ currentFrame > 0

\* C6: for a sequence of total >= 1 frames and every index i in 0..total-1,
\* getFrameIndexAtPercent(getPercentAtFrameIndex(i)) = i.
C6_RoundTrip ==
    getTotalFrames >= 1 =>
        \A i \in 0..(getTotalFrames - 1) :
            getFrameIndexAtPercent(getPercentAtFrameIndex(i)) = i

C6_Witness ==
    /\ isLoaded /\ getTotalFrames >= 3
    /\ lastOp.op = "setFrameAtPercent" /\ lastOp.acc
    /\ currentFrame > 0 /\ currentFrame < getTotalFrames - 1
    /\ REq(lastOp.arg, getPercentAtFrameIndex(currentFrame))

\* C7 (original statement): two successive requests of the same index through
\* setFrame on a loaded sequence make exactly one texture upload in total.
SameFrameTwice ==
    /\ lastOp.op = "setFrame" /\ lastOp.acc
    /\ prevOp.op = "setFrame" /\ prevOp.arg = lastOp.arg

C7_ExactlyOneUpload ==
    SameFrameTwice => (prevOp.up + lastOp.up = 1 /\ lastOp.up = 0)

\* C7: two successive requests of the same index through setFrame on a loaded
\* sequence make at most one texture upload: the second call never uploads,
\* and the first does not either when the index is already lastFrameLoaded
\* or the frame fails to decode.
C7_SecondRequestNoUpload ==
    SameFrameTwice =>
        LET idx == WrapIndex(lastOp.arg, getTotalFrames)
        IN  /\ lastOp.up = 0
            /\ prevOp.up + lastOp.up <= 1
            /\ prevOp.up = 1 => lastFrameLoaded = idx
            /\ prevOp.up = 0 =>
                   (lastFrameLoaded = idx \/ ~isAllocated(sequence[idx + 1]))

C7_Witness ==
    /\ SameFrameTwice
    /\ prevOp.up = 1 /\ lastOp.up = 0
    /\ lastFrameLoaded = currentFrame /\ currentFrame > 0

\* the folder load that was last called cannot resolve any file
FolderFails(folder) ==
    ~Exists(folder) \/ Len(Listing(folder, extension)) = 0

FailingLoad ==
    \/ lastOp.op = "loadSequence" /\ lastOp.arg[2] < lastOp.arg[1]
    \/ lastOp.op = "loadSequenceFolder" /\ FolderFails(lastOp.arg)

C9_FailedBackgroundLoad ==
    bg = "Failed" => (~isLoaded /\ ~isLoading /\ getTotalFrames = 0)

C9_Witness ==
    /\ bg = "Failed" /\ ~ThreadRunning
    /\ lastOp.op = "updateThreadedLoad" /\ lastOp.acc
    /\ listeners = 0
    /\ ~isLoaded

ConfigOps == {"setMaxFrames", "setExtension", "enableThreadedLoad"}

\* C10: setMaxFrames, setExtension and enableThreadedLoad called while the
\* sequence is loaded report an error and leave maxFrames, the extension
\* filter and the threaded-load flag as they were.
C10_ConfigFrozenWhileLoaded ==
    [][(isLoaded /\ lastOp'.op \in ConfigOps /\ thread' = thread)
          => (/\ lastOp'.err
              /\ UNCHANGED <<maxFrames, extension, useThread>>)]_vars

\* C11: once the background task has honoured the cancel flag (after filename
\* resolution or between two decodes), the finalize step never runs for that
\* load: whatever ticks follow, the sequence is not loaded and width and
\* height are not captured.
C11_CancelledNeverFinalized ==
    bg = "Cancelled" => (~isLoaded /\ width = 0 /\ height = 0)

TeardownCalls == {"unloadSequence", "destructor"}

\* C12: when unloadSequence() or the destructor is entered while the
\* background task is past line 186 and still running, the call has set the
\* cancellation request by the time it blocks in waitForThread.
C12_TeardownCancelsFirst ==
    [][(/\ pending = NoPending
        /\ pending' \in TeardownCalls
        /\ thread.pc \in {"names", "cancelcheck", "frames"})
          => cancelLoading']_vars

\* C13: a decode failure at index k, in the background loop or in an
\* on-demand setFrame(k), reports an error, leaves entry k empty, keeps the
\* sequence loaded (or loading) with all its entries, and the loop goes on to
\* entry k+1; every entry whose file decodes is decoded and presented by
\* setFrame whatever happened to the others.
C13_DecodeFailureIsLocal ==
    /\ []((thread.pc = "frames" /\ thread.i < Len(sequence)) =>
             LET k == thread.i + 1
                 r == preloadAllFramesStep(sequence, filenames, thread.i)
             IN  /\ r.err = (filenames[k] \in Corrupt)
                 /\ r.err => r.sequence[k] = sequence[k]
                 /\ ~r.err => r.sequence[k] = filenames[k]
                 /\ \A j \in 1..Len(sequence) :
                        j # k => r.sequence[j] = sequence[j])
    /\ [](isLoaded =>
             \A index \in 0..(getTotalFrames - 1) :
                 LET k == index + 1
                     r == setFrameResult(index)
                 IN  /\ r.acc /\ r.currentFrame = index
                     /\ Len(r.sequence) = Len(sequence)
                     /\ \A j \in 1..Len(sequence) :
                            j # k => r.sequence[j] = sequence[j]
                     /\ IF filenames[k] \in Corrupt
                        THEN /\ r.err /\ r.up = 0
                             /\ ~isAllocated(r.sequence[k])
                             /\ r.texture = texture
                             /\ r.lastFrameLoaded = lastFrameLoaded
                        ELSE /\ ~r.err
                             /\ r.sequence[k] = filenames[k]
                             /\ r.texture = filenames[k]
                             /\ r.lastFrameLoaded = index)
    /\ [][(/\ thread.pc = "frames" /\ thread' # thread
           /\ thread.i < Len(sequence)
           /\ ~(useThread /\ cancelLoading)
           /\ filenames[thread.i + 1] \in Corrupt)
          => (/\ thread' = [pc |-> "frames", i |-> thread.i + 1]
              /\ ~isAllocated(sequence'[thread.i + 1])
              /\ UNCHANGED <<loaded, loading, filenames>>
              /\ Len(sequence') = Len(sequence))]_vars
    /\ [][(lastOp'.op \in AddressingOps /\ thread' = thread /\ isLoaded)
          => (isLoaded' /\ filenames' = filenames
              /\ Len(sequence') = Len(sequence))]_vars

C13_Witness ==
    /\ bg = "Completed" /\ isLoaded /\ ~ThreadRunning
    /\ lastOp.op = "setFrame" /\ lastOp.up = 1 /\ ~lastOp.err
    /\ currentFrame >= 1 /\ lastFrameLoaded = currentFrame
    /\ filenames[currentFrame] \in Corrupt
    /\ ~isAllocated(sequence[currentFrame])
    /\ texture = filenames[currentFrame + 1]

\* C14: a sequence is marked loaded only once an entry has been decoded, and
\* while it is loaded width and height are the dimensions of that first
\* successfully decoded entry.
C14_DimensionsOfDecodedEntry ==
    (isLoaded /\ getTotalFrames > 0) =>
        \E i \in 1..getTotalFrames :
            /\ isAllocated(sequence[i])
            /\ width = getWidth(sequence[i])
            /\ height = getHeight(sequence[i])

\* C15: isLoaded() becomes true only when the background task is not
\* running: the finalize step never runs while the task is still resolving
\* filenames or decoding frames.
C15_LoadedAfterTaskFinished ==
    [][(~isLoaded /\ isLoaded') => ~ThreadRunning]_vars

\* C16: between the start and the exit of the background task no foreground
\* call decodes into, appends to or clears the entries or the filenames.
C16_TaskIsExclusiveMutator ==
    [][(ThreadRunning /\ thread' = thread)
          => UNCHANGED <<sequence, filenames>>]_vars

\* a background load of a folder that resolves to at least one file has started
BackgroundLoadStarted ==
    /\ bg = "Running"
    /\ Exists(folderToLoad) /\ Len(Listing(folderToLoad, extension)) > 0

\* C17 (original statement): such a load, left alone under fair scheduling,
\* eventually is not loading and loaded with lastFrameLoaded reset and frame 0
\* presented.
C17_EventuallyFrameZeroPresented ==
    BackgroundLoadStarted ~>
        (/\ ~isLoading /\ isLoaded
         /\ lastFrameLoaded = 0 /\ texture = filenames[1])

\* the state the finalize step of the tick leaves
Finalized ==
    /\ ~isLoading /\ isLoaded /\ bg = "Completed"
    /\ lastOp.op = "updateThreadedLoad" /\ lastOp.acc
    /\ getTotalFrames > 0
    /\ IF filenames[1] \in Corrupt
       THEN /\ lastFrameLoaded = -1 /\ lastOp.up = 0 /\ lastOp.err
            /\ ~isAllocated(sequence[1])
       ELSE /\ lastFrameLoaded = 0 /\ lastOp.up = 1 /\ ~lastOp.err
            /\ texture = filenames[1]

\* C17: such a load eventually is not loading and loaded with
\* lastFrameLoaded reset; frame 0 is presented when its file decodes, and
\* otherwise nothing is uploaded and lastFrameLoaded stays -1.  The sequence
\* stays loaded until a new load.
C17_EventuallyLoaded ==
    /\ BackgroundLoadStarted ~> Finalized
    /\ [][(isLoaded /\ ~isLoaded') => lastOp'.op = "loadSequenceFolder"]_vars

C17_Witness ==
    /\ Finalized /\ useThread /\ folderToLoad = "seq"
    /\ lastFrameLoaded = 0 /\ listeners = 0 /\ ~ThreadRunning

\* C18: in every reachable state isLoaded() implies getTotalFrames() > 0.
C18_LoadedHasFrames == isLoaded => getTotalFrames > 0

\* C19: isLoaded() and isLoading() are never both true.
C19_NotLoadedAndLoading == ~(isLoaded /\ isLoading)

\* C20: an owner tick on an already loaded sequence does not run the finalize
\* step again: it neither resets lastFrameLoaded nor uploads frame 0 over the
\* frame selected by a preceding setFrame.
C20_TickKeepsLoadedSequence ==
    [][(isLoaded /\ lastOp'.op = "updateThreadedLoad" /\ thread' = thread)
          => (lastOp'.up = 0 /\ UNCHANGED <<lastFrameLoaded, texture>>)]_vars

====
